---------------------------- MODULE Spec2Model ----------------------------
(***************************************************************************)
(* Model of src/api/analyze.js: the request handler of the trust-lens      *)
(* backend and its four helpers (analyzeQueryFraming, analyzeNetwork,      *)
(* analyzeSimplifiedEEAT, synthesizeScore).                                *)
(*                                                                         *)
(* Strings that the code inspects (the classifier's answer) are sequences  *)
(* of one-character strings; strings that the code only passes on are TLA+ *)
(* strings.  The external services (classifier, DNS, search) answer        *)
(* nondeterministically; every answer the code can tell apart is drawn.    *)
(***************************************************************************)
EXTENDS Integers, Sequences, FiniteSets, TLC

(***************************************************************************)
(* Bounds of the model.                                                    *)
(***************************************************************************)
\* longest citedSources list of a request of the handler specification
MaxSources == 3
\* number of hostnames of the long source list analysed without a search key
WideNetwork == 6
\* number of hostnames of the long source list analysed with a search key
WideAuthority == 4
\* longest list of domains of which every processing order is tried
AllOrdersUpTo == 4

(***************************************************************************)
(* Inputs: hostnames, source URLs, replies of the external services.       *)
(***************************************************************************)
HostNames ==
    << "a.example.com", "b.example.com", "c.example.com", "d.example.com",
       "e.example.com", "f.example.com", "g.example.com", "h.example.com",
       "i.example.com", "j.example.com" >>

\* A source {url}: a well-formed URL has a scheme, a host and a path.
Url(host, path) == [scheme |-> "http", host |-> host, path |-> path]

\* A string that is no URL ("not a url"): new URL(...) throws a TypeError.
BadUrl == [scheme |-> "", host |-> "", path |-> "not a url"]

\* The URLs cited in the short source lists: three hosts and one malformed entry.
HandlerUrls ==
    { Url(HostNames[1], "/"), Url(HostNames[2], "/"), Url(HostNames[3], "/"), BadUrl }

RECURSIVE SeqsUpTo(_, _)
SeqsUpTo(S, n) ==
    IF n = 0 THEN { << >> }
    ELSE LET shorter == SeqsUpTo(S, n - 1)
         IN  shorter \cup { Append(s, x) : s \in { t \in shorter : Len(t) = n - 1 }, x \in S }

\* citedSources of req.body: absent, or a list of sources.
Sources(list) == [given |-> TRUE, list |-> list]
NoSources == [given |-> FALSE, list |-> << >>]

HandlerSources == { NoSources } \cup { Sources(l) : l \in SeqsUpTo(HandlerUrls, MaxSources) }

\* A long source list: the first k hostnames, one page each, and then a
\* second page of the first hostname.
HostList(k) ==
    Append([i \in 1..k |-> Url(HostNames[i], "/")], Url(HostNames[1], "/page2"))

Queries == { "what are the features of X", "why is X superior to Y" }

\* Answers of the text-classification service, as the code can tell them apart:
\*   rejected : fetch rejects (network error)
\*   notjson  : response.json() rejects (body is no JSON)
\*   json     : a JSON body, with or without choices[0].message.content
LlmTexts ==
    { << "B", "i", "a", "s", "e", "d" >>,
      << "N", "e", "u", "t", "r", "a", "l" >>,
      << " ", "B", "I", "A", "S", "E", "D", "\n" >>,
      << "U", "n", "b", "i", "a", "s", "e", "d" >>,
      << "b", "i", "a", "s" >> }

LlmReplies ==
    { [kind |-> "rejected", status |-> 0, hasContent |-> FALSE, content |-> << >>],
      [kind |-> "notjson", status |-> 502, hasContent |-> FALSE, content |-> << >>],
      [kind |-> "json", status |-> 401, hasContent |-> FALSE, content |-> << >>] }
    \cup { [kind |-> "json", status |-> 200, hasContent |-> TRUE, content |-> t] : t \in LlmTexts }

NoLlmReply == [kind |-> "none", status |-> 0, hasContent |-> FALSE, content |-> << >>]

\* Answers of dns.lookup: an address, or a rejection.
Addresses == { "192.0.2.1", "192.0.2.2" }
DnsReplies == { [ok |-> TRUE, address |-> a] : a \in Addresses }
              \cup { [ok |-> FALSE, address |-> ""] }

\* Answers of the search service: as for the classifier; a JSON body has
\* search_information.total_results or lacks it.
ResultCounts == { 999, 1000, 99999, 100000 }
SearchReplies ==
    { [kind |-> "rejected", status |-> 0, hasTotal |-> FALSE, total |-> 0],
      [kind |-> "notjson", status |-> 503, hasTotal |-> FALSE, total |-> 0],
      [kind |-> "json", status |-> 401, hasTotal |-> FALSE, total |-> 0],
      [kind |-> "json", status |-> 200, hasTotal |-> FALSE, total |-> 0] }
    \cup { [kind |-> "json", status |-> 200, hasTotal |-> TRUE, total |-> c] : c \in ResultCounts }

(***************************************************************************)
(* Library functions of JavaScript that the code uses.                     *)
(***************************************************************************)
Range(s) == { s[i] : i \in DOMAIN s }

UpperChars == << "A", "B", "C", "D", "E", "F", "G", "H", "I", "J", "K", "L", "M",
                 "N", "O", "P", "Q", "R", "S", "T", "U", "V", "W", "X", "Y", "Z" >>
LowerChars == << "a", "b", "c", "d", "e", "f", "g", "h", "i", "j", "k", "l", "m",
                 "n", "o", "p", "q", "r", "s", "t", "u", "v", "w", "x", "y", "z" >>

\* String.prototype.toLowerCase
toLowerCase(s) ==
    [i \in 1..Len(s) |->
        IF \E k \in 1..Len(UpperChars) : UpperChars[k] = s[i]
        THEN LowerChars[CHOOSE k \in 1..Len(UpperChars) : UpperChars[k] = s[i]]
        ELSE s[i]]

WhiteSpace == { " ", "\n", "\t" }

\* String.prototype.trim
RECURSIVE trim(_)
trim(s) ==
    IF s = << >> THEN s
    ELSE IF s[1] \in WhiteSpace THEN trim(Tail(s))
    ELSE IF s[Len(s)] \in WhiteSpace THEN trim(SubSeq(s, 1, Len(s) - 1))
    ELSE s

\* String.prototype.includes
includes(s, needle) ==
    \E k \in 0..(Len(s) - Len(needle)) : SubSeq(s, k + 1, k + Len(needle)) = needle

\* Math.round of the quotient num/den of two naturals (halves go up).
MathRound(num, den) == (2 * num + den) \div (2 * den)

\* Math.max
MathMax(a, b) == IF a >= b THEN a ELSE b

\* `${n}` in a template literal, for a natural number n
NumberText(n) == ToString(n)

\* new URL(src.url) throws for a string that is no URL
IsUrl(u) == u.scheme # ""

\* new URL(src.url).hostname
hostname(u) == u.host

\* [...new Set(xs)]: the distinct elements, in the order of first occurrence
RECURSIVE UniqueInOrder(_)
UniqueInOrder(xs) ==
    IF xs = << >> THEN << >>
    ELSE LET front == UniqueInOrder(SubSeq(xs, 1, Len(xs) - 1))
             x == xs[Len(xs)]
         IN  IF x \in Range(front) THEN front ELSE Append(front, x)

\* !sources || sources.length === 0
NoSourcesToAnalyze(sources) == ~sources.given \/ Len(sources.list) = 0

\* sources.map(src => new URL(src.url).hostname) throws
UrlParsingThrows(sources) == \E i \in 1..Len(sources.list) : ~IsUrl(sources.list[i])

\* [...new Set(sources.map(src => new URL(src.url).hostname))]
UniqueDomainsOf(sources) ==
    UniqueInOrder([i \in 1..Len(sources.list) |-> hostname(sources.list[i])])

(***************************************************************************)
(* analyzeQueryFraming (lines 39-66).                                      *)
(***************************************************************************)
\* mutant: the skipped analysis is scored like a biased query
QueryFramingSkipped_Penalised ==
    [score |-> 50, isBiased |-> FALSE,
     details |-> [text |-> "Analysis skipped: API Key not configured.", result |-> << >>]]

\* line 44: the key is not configured
QueryFramingSkipped ==
    [score |-> 100, isBiased |-> FALSE,
     details |-> [text |-> "Analysis skipped: API Key not configured.", result |-> << >>]]

\* lines 62-65: the catch block
QueryFramingFailed ==
    [score |-> 100, isBiased |-> FALSE,
     details |-> [text |-> "Analysis could not be performed.", result |-> << >>]]

\* lines 49-59 throw: fetch rejects, response.json() rejects, or
\* data.choices[0].message.content is not there to be trimmed
ClassificationThrows(reply) == reply.kind # "json" \/ ~reply.hasContent

\* mutant: the answer is not lower-cased
ClassificationResult_NoLowerCase(content) == trim(content)

\* line 59: data.choices[0].message.content.trim().toLowerCase()
ClassificationResult(content) == toLowerCase(trim(content))

\* line 60: result.includes('biased')
IsBiased(result) == includes(result, << "b", "i", "a", "s", "e", "d" >>)

\* lines 59-61
QueryFramingClassified(content) ==
    LET result == ClassificationResult(content)
        isBiased == IsBiased(result)
    IN  [score |-> IF isBiased THEN 50 ELSE 100, isBiased |-> isBiased,
         details |-> [text |-> "Query was classified as: ", result |-> result]]

\* lines 48-65: the try statement, given the service's reply
QueryFramingOutcome(reply) ==
    IF ClassificationThrows(reply) THEN QueryFramingFailed
    ELSE QueryFramingClassified(reply.content)

(***************************************************************************)
(* analyzeNetwork (lines 68-92).                                           *)
(***************************************************************************)
\* line 70 (and line 101)
NoSourcesResult == [score |-> 100, details |-> << "No sources to analyze." >>]

EmptyIpMap == [a \in {} |-> << >>]

\* mutant: only the newcomer is flagged, not the domains already on the address
NetworkInsert_NewcomerOnly(map, shared, domain, address) ==
    IF address \in DOMAIN map
    THEN [ipMap |-> [map EXCEPT ![address] = Append(@, domain)],
          shared |-> shared \cup {domain}]
    ELSE [ipMap |-> [a \in DOMAIN map \cup {address} |->
                        IF a = address THEN << domain >> ELSE map[a]],
          shared |-> shared]

\* mutant: the newcomer is not pushed before the domains on the address are flagged
NetworkInsert_NoPush(map, shared, domain, address) ==
    IF address \in DOMAIN map
    THEN [ipMap |-> map, shared |-> shared \cup Range(map[address])]
    ELSE [ipMap |-> [a \in DOMAIN map \cup {address} |->
                        IF a = address THEN << domain >> ELSE map[a]],
          shared |-> shared]

\* lines 78-83: the domain's address is in ipMap already, or is new
NetworkInsert(map, shared, domain, address) ==
    IF address \in DOMAIN map
    THEN LET pushed == [map EXCEPT ![address] = Append(@, domain)]
         IN  [ipMap |-> pushed, shared |-> shared \cup Range(pushed[address])]
    ELSE [ipMap |-> [a \in DOMAIN map \cup {address} |->
                        IF a = address THEN << domain >> ELSE map[a]],
          shared |-> shared]

\* lines 76-86: one iteration of the loop; a rejected lookup is caught and skipped
NetworkIteration(map, shared, domain, reply) ==
    IF reply.ok THEN NetworkInsert(map, shared, domain, reply.address)
    ELSE [ipMap |-> map, shared |-> shared]

\* lines 89-90
NetworkScore(size) == MathMax(0, 100 - size * 20)

\* lines 89-91
NetworkResult(shared) ==
    [score |-> NetworkScore(Cardinality(shared)),
     details |-> << NumberText(Cardinality(shared)),
                    " domains may be part of a shared network." >>]

\* lines 75-87: the whole loop over `domains`, replyOf[d] being what dns.lookup(d) gives
RECURSIVE NetworkLoop(_, _)
NetworkLoop(domains, replyOf) ==
    IF domains = << >> THEN [ipMap |-> EmptyIpMap, shared |-> {}]
    ELSE LET before == NetworkLoop(SubSeq(domains, 1, Len(domains) - 1), replyOf)
             d == domains[Len(domains)]
         IN  NetworkIteration(before.ipMap, before.shared, d, replyOf[d])

(***************************************************************************)
(* analyzeSimplifiedEEAT (lines 94-125).                                   *)
(***************************************************************************)
\* line 99
AuthoritySkipped == [score |-> 100, details |-> << "Analysis skipped: API Key not configured." >>]

\* lines 110-111 throw: fetch rejects or response.json() rejects
SearchThrows(reply) == reply.kind # "json"

\* line 112: data.search_information?.total_results || 0
ResultCount(reply) == IF reply.hasTotal /\ reply.total # 0 THEN reply.total ELSE 0

\* mutant: the bucket bounds are inclusive
AuthorityPoints_InclusiveBounds(resultCount) ==
    IF resultCount <= 1000 THEN 20
    ELSE IF resultCount <= 100000 THEN 70
    ELSE 100

\* lines 114-116: the points of a result count
AuthorityPoints(resultCount) ==
    IF resultCount < 1000 THEN 20
    ELSE IF resultCount < 100000 THEN 70
    ELSE 100

\* line 114: lowAuthorityCount++
IsLowAuthority(resultCount) == resultCount < 1000

\* lines 108-120: one iteration of the loop
AuthorityIteration(total, low, reply) ==
    IF SearchThrows(reply) THEN [total |-> total + 50, low |-> low]
    ELSE LET resultCount == ResultCount(reply)
         IN  [total |-> total + AuthorityPoints(resultCount),
              low |-> IF IsLowAuthority(resultCount) THEN low + 1 ELSE low]

\* lines 123-124
AuthorityResult(total, low, n) ==
    [score |-> MathRound(total, n),
     details |-> << NumberText(low), " domains have very low authority." >>]

(***************************************************************************)
(* synthesizeScore (lines 127-147).                                        *)
(***************************************************************************)
\* mutant: the network weight is 0.6
WeightedTenths_HeavyNetwork(q, n, e) == q * 1 + n * 6 + e * 4

\* lines 129-132: ten times the weighted sum (weights 0.1, 0.5, 0.4)
WeightedTenths(q, n, e) == q * 1 + n * 5 + e * 4

HighRiskPrefix == "High risk of manipulation detected. "
MediumRiskSummary == "Medium risk detected. Please review sources with caution."
LowRiskSummary == "Low risk detected. The sources appear generally trustworthy."
InitialSummary == "Analysis complete. "

\* lines 137-139: the prefix, then the details of the analyzers that scored under 60
HighRiskSummary(results) ==
    << HighRiskPrefix >>
    \o (IF results.networkAnalysis.score < 60 THEN results.networkAnalysis.details ELSE << >>)
    \o (IF results.simplifiedEEAT.score < 60
        THEN << " " >> \o results.simplifiedEEAT.details ELSE << >>)

\* mutant: 60 is still high risk
SummaryOf_HighUpTo60(overallScore, results) ==
    IF overallScore <= 60 THEN HighRiskSummary(results)
    ELSE IF overallScore < 85 THEN << MediumRiskSummary >>
    ELSE << LowRiskSummary >>

\* mutant: the high-risk tier ends at 70
SummaryOf_HighBelow70(overallScore, results) ==
    IF overallScore < 70 THEN HighRiskSummary(results)
    ELSE IF overallScore < 85 THEN << MediumRiskSummary >>
    ELSE << LowRiskSummary >>

\* lines 135-144: the summary; a string is the sequence of the pieces it is joined from
SummaryOf(overallScore, results) ==
    IF overallScore < 60 THEN HighRiskSummary(results)
    ELSE IF overallScore < 85 THEN << MediumRiskSummary >>
    ELSE << LowRiskSummary >>

\* lines 127-147.  Math.round is applied to a sum of doubles; the scores the
\* analyzers return make q and n * 5 multiples of ten, so the sum is never
\* within rounding error of a half and rounding the exact sum gives the same.
synthesizeScore(results) ==
    LET overallScore ==
            MathRound(WeightedTenths(results.queryFraming.score,
                                     results.networkAnalysis.score,
                                     results.simplifiedEEAT.score), 10)
    IN  [overallScore |-> overallScore, summary |-> SummaryOf(overallScore, results)]

\* line 25
alternativeAnswer ==
    "The Alternative Answer feature is in development. It will show a corrected response here."

(***************************************************************************)
(* State: the request, the configuration, the handler's position, and the  *)
(* locals of the analyzer that is running.                                 *)
(***************************************************************************)
VARIABLES
    pc,                   \* position of the handler
    userQuery,            \* req.body.userQuery
    citedSources,         \* req.body.citedSources
    deepseekKey,          \* process.env.DEEPSEEK_API_KEY is set
    searchApiKey,         \* process.env.SEARCH_API_KEY is set
    llmReply,             \* analyzeQueryFraming: what the classification call gave
    analysisResults,      \* handler: the three analyzer results
    uniqueDomains,        \* analyzeNetwork, analyzeSimplifiedEEAT: uniqueDomains
    idx,                  \* position of the for-of loop in uniqueDomains
    ipMap,                \* analyzeNetwork: ipMap
    sharedIpDomains,      \* analyzeNetwork: sharedIpDomains
    lookups,              \* analyzeNetwork: what dns.lookup gave, per iteration
    totalAuthorityScore,  \* analyzeSimplifiedEEAT: totalAuthorityScore
    lowAuthorityCount,    \* analyzeSimplifiedEEAT: lowAuthorityCount
    searchLog,            \* analyzeSimplifiedEEAT: what the search call gave, per iteration
    synth,                \* handler: { overallScore, summary } of line 21
    sent                  \* the responses written to res

vars ==
    << pc, userQuery, citedSources, deepseekKey, searchApiKey, llmReply,
       analysisResults, uniqueDomains, idx, ipMap, sharedIpDomains, lookups,
       totalAuthorityScore, lowAuthorityCount, searchLog, synth, sent >>

request == << userQuery, citedSources, deepseekKey, searchApiKey >>
networkLocals == << ipMap, sharedIpDomains, lookups >>
authorityLocals == << totalAuthorityScore, lowAuthorityCount, searchLog >>

\* a result that has not been computed yet
Pending == [score |-> -1, details |-> << >>]
NoSynth == [overallScore |-> -1, summary |-> << >>]

\* The state when the handler is entered (line 5).
HandlerEntered ==
    /\ pc = "start"
    /\ llmReply = NoLlmReply
    /\ analysisResults = [queryFraming |-> Pending, networkAnalysis |-> Pending,
                          simplifiedEEAT |-> Pending]
    /\ uniqueDomains = << >>
    /\ idx = 1
    /\ ipMap = EmptyIpMap
    /\ sharedIpDomains = {}
    /\ lookups = << >>
    /\ totalAuthorityScore = 0
    /\ lowAuthorityCount = 0
    /\ searchLog = << >>
    /\ synth = NoSynth
    /\ sent = << >>

\* Requests with short source lists, under every configuration.
InitShort ==
    /\ userQuery \in Queries
    /\ citedSources \in HandlerSources
    /\ deepseekKey \in BOOLEAN
    /\ searchApiKey \in BOOLEAN
    /\ HandlerEntered

\* Requests that cite many hostnames, with no search key configured.
InitWideNetwork ==
    /\ userQuery \in Queries
    /\ citedSources = Sources(HostList(WideNetwork))
    /\ deepseekKey \in BOOLEAN
    /\ searchApiKey = FALSE
    /\ HandlerEntered

\* Requests that cite several hostnames, with only the search key configured.
InitWideAuthority ==
    /\ userQuery \in Queries
    /\ citedSources = Sources(HostList(WideAuthority))
    /\ deepseekKey = FALSE
    /\ searchApiKey = TRUE
    /\ HandlerEntered

Init == InitShort \/ InitWideNetwork \/ InitWideAuthority

\* line 15: analyzeQueryFraming(userQuery), lines 39-66
AnalyzeQueryFraming ==
    /\ pc = "start"
    /\ \/ /\ ~deepseekKey
          /\ llmReply' = NoLlmReply
          /\ analysisResults' = [analysisResults EXCEPT !.queryFraming = QueryFramingSkipped]
       \/ /\ deepseekKey
          /\ \E reply \in LlmReplies :
                /\ llmReply' = reply
                /\ analysisResults' =
                       [analysisResults EXCEPT !.queryFraming = QueryFramingOutcome(reply)]
    /\ pc' = "qf_done"
    /\ UNCHANGED << request, uniqueDomains, idx, networkLocals, authorityLocals, synth, sent >>

\* line 16: analyzeNetwork(citedSources) is called, lines 69-73
AnalyzeNetworkEnter ==
    /\ pc = "qf_done"
    /\ llmReply' = NoLlmReply
    /\ \/ /\ NoSourcesToAnalyze(citedSources)
          /\ analysisResults' = [analysisResults EXCEPT !.networkAnalysis = NoSourcesResult]
          /\ pc' = "net_done"
          /\ UNCHANGED uniqueDomains
       \/ /\ ~NoSourcesToAnalyze(citedSources)
          /\ UrlParsingThrows(citedSources)
          /\ pc' = "rejected"
          /\ UNCHANGED << analysisResults, uniqueDomains >>
       \/ /\ ~NoSourcesToAnalyze(citedSources)
          /\ ~UrlParsingThrows(citedSources)
          /\ uniqueDomains' = UniqueDomainsOf(citedSources)
          /\ pc' = "net_loop"
          /\ UNCHANGED analysisResults
    /\ idx' = 1
    /\ ipMap' = EmptyIpMap
    /\ sharedIpDomains' = {}
    /\ lookups' = << >>
    /\ UNCHANGED << request, authorityLocals, synth, sent >>

\* lines 75-87: one iteration, with what dns.lookup gives
NetworkLookup ==
    /\ pc = "net_loop"
    /\ idx <= Len(uniqueDomains)
    /\ \E reply \in DnsReplies :
          LET after == NetworkIteration(ipMap, sharedIpDomains, uniqueDomains[idx], reply)
          IN  /\ ipMap' = after.ipMap
              /\ sharedIpDomains' = after.shared
              /\ lookups' = Append(lookups, reply)
    /\ idx' = idx + 1
    /\ UNCHANGED << pc, request, llmReply, analysisResults, uniqueDomains,
                    authorityLocals, synth, sent >>

\* lines 89-91: the loop is over
NetworkReturn ==
    /\ pc = "net_loop"
    /\ idx > Len(uniqueDomains)
    /\ analysisResults' =
           [analysisResults EXCEPT !.networkAnalysis = NetworkResult(sharedIpDomains)]
    /\ pc' = "net_done"
    /\ UNCHANGED << request, llmReply, uniqueDomains, idx, networkLocals,
                    authorityLocals, synth, sent >>

\* line 17: analyzeSimplifiedEEAT(citedSources) is called, lines 95-105;
\* the locals of analyzeNetwork are gone
AnalyzeAuthorityEnter ==
    /\ pc = "net_done"
    /\ ipMap' = EmptyIpMap
    /\ sharedIpDomains' = {}
    /\ lookups' = << >>
    /\ idx' = 1
    /\ \/ /\ ~searchApiKey
          /\ analysisResults' = [analysisResults EXCEPT !.simplifiedEEAT = AuthoritySkipped]
          /\ pc' = "eeat_done"
          /\ uniqueDomains' = << >>
       \/ /\ searchApiKey
          /\ NoSourcesToAnalyze(citedSources)
          /\ analysisResults' = [analysisResults EXCEPT !.simplifiedEEAT = NoSourcesResult]
          /\ pc' = "eeat_done"
          /\ uniqueDomains' = << >>
       \/ /\ searchApiKey
          /\ ~NoSourcesToAnalyze(citedSources)
          /\ IF UrlParsingThrows(citedSources)
             THEN pc' = "rejected" /\ uniqueDomains' = << >>
             ELSE pc' = "eeat_loop" /\ uniqueDomains' = UniqueDomainsOf(citedSources)
          /\ UNCHANGED analysisResults
    /\ totalAuthorityScore' = 0
    /\ lowAuthorityCount' = 0
    /\ searchLog' = << >>
    /\ UNCHANGED << request, llmReply, synth, sent >>

\* lines 107-121: one iteration, with what the search call gives
AuthorityQuery ==
    /\ pc = "eeat_loop"
    /\ idx <= Len(uniqueDomains)
    /\ \E reply \in SearchReplies :
          LET after == AuthorityIteration(totalAuthorityScore, lowAuthorityCount, reply)
          IN  /\ totalAuthorityScore' = after.total
              /\ lowAuthorityCount' = after.low
              /\ searchLog' = Append(searchLog, reply)
    /\ idx' = idx + 1
    /\ UNCHANGED << pc, request, llmReply, analysisResults, uniqueDomains,
                    networkLocals, synth, sent >>

\* lines 123-124: the loop is over
AuthorityReturn ==
    /\ pc = "eeat_loop"
    /\ idx > Len(uniqueDomains)
    /\ analysisResults' =
           [analysisResults EXCEPT !.simplifiedEEAT =
                AuthorityResult(totalAuthorityScore, lowAuthorityCount, Len(uniqueDomains))]
    /\ pc' = "eeat_done"
    /\ UNCHANGED << request, llmReply, uniqueDomains, idx, networkLocals,
                    authorityLocals, synth, sent >>

\* line 21: synthesizeScore(analysisResults); the locals of analyzeSimplifiedEEAT are gone
Synthesize ==
    /\ pc = "eeat_done"
    /\ synth' = synthesizeScore(analysisResults)
    /\ pc' = "synthesized"
    /\ uniqueDomains' = << >>
    /\ idx' = 1
    /\ totalAuthorityScore' = 0
    /\ lowAuthorityCount' = 0
    /\ searchLog' = << >>
    /\ UNCHANGED << request, llmReply, analysisResults, networkLocals, sent >>

\* lines 29-34: res.status(200).json({...})
Respond ==
    /\ pc = "synthesized"
    /\ sent' = Append(sent, [status |-> 200,
                             body |-> [overallScore |-> synth.overallScore,
                                       summary |-> synth.summary,
                                       alternativeAnswer |-> alternativeAnswer,
                                       metrics |-> analysisResults]])
    /\ pc' = "done"
    /\ UNCHANGED << request, llmReply, analysisResults, uniqueDomains, idx,
                    networkLocals, authorityLocals, synth >>

\* handler, lines 5-35
Next ==
    \/ AnalyzeQueryFraming
    \/ AnalyzeNetworkEnter
    \/ NetworkLookup
    \/ NetworkReturn
    \/ AnalyzeAuthorityEnter
    \/ AuthorityQuery
    \/ AuthorityReturn
    \/ Synthesize
    \/ Respond

Spec == Init /\ [][Next]_vars

(***************************************************************************)
(* synthesizeScore on its own: the three scores are drawn from the values  *)
(* for which the weighted sum is not within rounding error of a half.      *)
(***************************************************************************)
InitSynth ==
    /\ userQuery \in Queries
    /\ citedSources = NoSources
    /\ deepseekKey = TRUE
    /\ searchApiKey = TRUE
    /\ pc = "eeat_done"
    /\ llmReply = NoLlmReply
    /\ \E q \in { 10 * k : k \in 0..10 }, n \in { 2 * k : k \in 0..50 }, e \in 0..100 :
          analysisResults =
              [queryFraming |-> [score |-> q, isBiased |-> q < 100,
                                 details |-> [text |-> "Query was classified as: ",
                                              result |-> << >>]],
               networkAnalysis |-> [score |-> n, details |-> NetworkResult({}).details],
               simplifiedEEAT |-> [score |-> e, details |-> AuthorityResult(0, 0, 1).details]]
    /\ uniqueDomains = << >>
    /\ idx = 1
    /\ ipMap = EmptyIpMap
    /\ sharedIpDomains = {}
    /\ lookups = << >>
    /\ totalAuthorityScore = 0
    /\ lowAuthorityCount = 0
    /\ searchLog = << >>
    /\ synth = NoSynth
    /\ sent = << >>

NextSynth == Synthesize

SpecSynth == InitSynth /\ [][NextSynth]_vars

(***************************************************************************)
(* Properties.                                                             *)
(***************************************************************************)
QueryFramingReturned == pc \notin { "start" }
NetworkReturned == pc \in { "net_done", "eeat_loop", "eeat_done", "synthesized", "done" }
AuthorityReturned == pc \in { "eeat_done", "synthesized", "done" }
Synthesized == pc \in { "synthesized", "done" }
HandlerOver == pc \in { "done", "rejected" }

\* s is num/den rounded to the nearest integer, a half going up
IsNearestInteger(s, num, den) ==
    /\ 2 * den * s - den <= 2 * num
    /\ 2 * num < 2 * den * s + den

RECURSIVE SumOf(_)
SumOf(xs) == IF xs = << >> THEN 0 ELSE xs[1] + SumOf(Tail(xs))

\* C1: whatever the request and whatever the external calls give, the handler
\* completes and responds exactly once, with status 200 and a body holding
\* overallScore, summary, alternativeAnswer and the three metrics.
C1_AlwaysResponds ==
    HandlerOver =>
        /\ Len(sent) = 1
        /\ sent[1].status = 200
        /\ DOMAIN sent[1].body = { "overallScore", "summary", "alternativeAnswer", "metrics" }
        /\ DOMAIN sent[1].body.metrics = { "queryFraming", "networkAnalysis", "simplifiedEEAT" }

\* C2: each of the three analyzer scores, once returned, is in 0..100, and so
\* is the overallScore that synthesizeScore computes from them.
C2_ScoresInRange ==
    /\ QueryFramingReturned => analysisResults.queryFraming.score \in 0..100
    /\ NetworkReturned => analysisResults.networkAnalysis.score \in 0..100
    /\ AuthorityReturned => analysisResults.simplifiedEEAT.score \in 0..100
    /\ Synthesized => synth.overallScore \in 0..100
    /\ pc = "done" => sent[1].body.overallScore \in 0..100

\* every analyzer ran on external answers, the network score was clamped, and
\* the response was sent
C2_Witness ==
    /\ pc = "done"
    /\ deepseekKey
    /\ analysisResults.queryFraming.score = 50
    /\ analysisResults.networkAnalysis.score = 0
    /\ sent[1].body.overallScore = 45

\* the unique hostnames that resolved and whose address another unique hostname
\* resolved to as well
DomainsSharingAnAddress ==
    { uniqueDomains[i] : i \in
        { i \in 1..Len(lookups) :
            /\ lookups[i].ok
            /\ \E j \in 1..Len(lookups) :
                  j # i /\ lookups[j].ok /\ lookups[j].address = lookups[i].address } }

\* C3: when analyzeNetwork finishes, sharedIpDomains is exactly the set of unique
\* hostnames that resolved to an address that another unique hostname resolved
\* to, and score = max(0, 100 - 20 * |sharedIpDomains|).
C3_SharedIpDomains ==
    pc = "net_done" =>
        /\ Len(lookups) = Len(uniqueDomains)
        /\ sharedIpDomains = DomainsSharingAnAddress
        /\ LET penalised == 100 - 20 * Cardinality(DomainsSharingAnAddress)
           IN  analysisResults.networkAnalysis.score = IF penalised > 0 THEN penalised ELSE 0

\* six hostnames share an address (the penalty exceeds 100)
C3_Witness ==
    /\ pc = "net_done"
    /\ Cardinality(sharedIpDomains) >= 6
    /\ analysisResults.networkAnalysis.score = 0

\* the points that the claim gives to one search answer
ClaimedPoints(reply) ==
    IF reply.kind # "json" THEN 50
    ELSE LET count == IF reply.hasTotal THEN reply.total ELSE 0
         IN  IF count < 1000 THEN 20 ELSE IF count < 100000 THEN 70 ELSE 100

ClaimedLow(reply) ==
    reply.kind = "json" /\ (IF reply.hasTotal THEN reply.total ELSE 0) < 1000

SearchCallFailed(reply) ==
    \/ reply.kind # "json"
    \/ reply.status \notin 200..299
    \/ ~reply.hasTotal

\* C5: every kind of failure of the search call for a domain gives that domain
\* the neutral 50 points and does not count it as a low-authority domain.
C5_FailureIsNeutral ==
    pc \in { "eeat_loop", "eeat_done" } =>
        LET points == [i \in 1..Len(searchLog) |->
                          IF SearchCallFailed(searchLog[i]) THEN 50
                          ELSE ClaimedPoints(searchLog[i])]
        IN  /\ totalAuthorityScore = SumOf(points)
            /\ lowAuthorityCount =
                   Cardinality({ i \in 1..Len(searchLog) :
                                   ~SearchCallFailed(searchLog[i]) /\ ClaimedLow(searchLog[i]) })

\* the text contains "biased", in whatever case
ContainsBiased(text) ==
    LET lower == << "b", "i", "a", "s", "e", "d" >>
        upper == << "B", "I", "A", "S", "E", "D" >>
    IN  \E k \in 1..(Len(text) - 5) :
            \A j \in 1..6 : text[k + j - 1] \in { lower[j], upper[j] }

\* C6: analyzeQueryFraming returns score 50 and isBiased true exactly when the
\* key is configured, the call succeeds and the answer contains "biased"; in
\* every other case it returns score 100 and isBiased false.
C6_BiasedExactlyWhen ==
    pc = "qf_done" =>
        LET r == analysisResults.queryFraming
            biased == /\ deepseekKey
                      /\ llmReply.kind = "json"
                      /\ llmReply.hasContent
                      /\ ContainsBiased(llmReply.content)
        IN  /\ biased => (r.score = 50 /\ r.isBiased)
            /\ ~biased => (r.score = 100 /\ ~r.isBiased)

\* the answer " BIASED\n" was classified as biased
C6_Witness ==
    /\ pc = "qf_done"
    /\ llmReply.hasContent
    /\ llmReply.content[1] = " "
    /\ analysisResults.queryFraming.isBiased
    /\ analysisResults.queryFraming.score = 50

\* C7: with both keys absent, queryFraming.score and simplifiedEEAT.score are
\* 100 and overallScore = round(10 + 0.5 * networkAnalysis.score + 40); one
\* source gives 100 and "Low risk", two hostnames on one address give a network
\* score of 60, an overallScore of 80 and "Medium risk".
C7_OnlyNetworkMoves ==
    (~deepseekKey /\ ~searchApiKey) =>
        /\ QueryFramingReturned => analysisResults.queryFraming.score = 100
        /\ AuthorityReturned => analysisResults.simplifiedEEAT.score = 100
        /\ Synthesized =>
              IsNearestInteger(synth.overallScore,
                               100 + 5 * analysisResults.networkAnalysis.score + 400, 10)
        /\ (pc = "done" /\ Len(citedSources.list) = 1) =>
              /\ sent[1].body.overallScore = 100
              /\ sent[1].body.summary = << LowRiskSummary >>
        /\ (pc = "net_done" /\ Len(uniqueDomains) = 2 /\ lookups[1].ok
                /\ lookups[2] = lookups[1]) =>
              analysisResults.networkAnalysis.score = 60
        /\ (pc = "done" /\ analysisResults.networkAnalysis.score = 60) =>
              /\ sent[1].body.overallScore = 80
              /\ sent[1].body.summary = << MediumRiskSummary >>

\* no key, two sources on one address, answered with 80 and "Medium risk"
C7_Witness ==
    /\ pc = "done"
    /\ ~deepseekKey /\ ~searchApiKey
    /\ Len(citedSources.list) = 2
    /\ analysisResults.networkAnalysis.score = 60
    /\ sent[1].body.overallScore = 80

\* C8: synthesizeScore selects exactly one tier: the high-risk prefix iff
\* overallScore < 60, the medium-risk text iff 60 <= overallScore < 85, the
\* low-risk text iff overallScore >= 85; "Analysis complete. " is never returned.
C8_SummaryTiers ==
    pc = "synthesized" =>
        LET o == synth.overallScore
            s == synth.summary
            high == s[1] = HighRiskPrefix
            medium == s = << MediumRiskSummary >>
            low == s = << LowRiskSummary >>
        IN  /\ o \in 0..100
            /\ Len(s) >= 1
            /\ high <=> o < 60
            /\ medium <=> (60 <= o /\ o < 85)
            /\ low <=> o >= 85
            /\ Cardinality({ t \in { "high", "medium", "low" } :
                               \/ t = "high" /\ high
                               \/ t = "medium" /\ medium
                               \/ t = "low" /\ low }) = 1
            /\ s[1] # InitialSummary

\* an overallScore of exactly 60 got the medium-risk text
C8_Witness ==
    /\ pc = "synthesized"
    /\ synth.overallScore = 60
    /\ synth.summary = << MediumRiskSummary >>

\* every order in which `domains` can be processed, for short lists; for longer
\* ones the orders that exchange two domains, and the reverse order
Transposed(domains, i, j) ==
    [k \in 1..Len(domains) |->
        IF k = i THEN domains[j] ELSE IF k = j THEN domains[i] ELSE domains[k]]

ProcessingOrders(domains) ==
    IF Len(domains) <= AllOrdersUpTo
    THEN { o \in [1..Len(domains) -> Range(domains)] : Range(o) = Range(domains) }
    ELSE { Transposed(domains, i, j) : i \in 1..Len(domains), j \in 1..Len(domains) }
         \cup { [k \in 1..Len(domains) |-> domains[Len(domains) + 1 - k]] }

\* what dns.lookup gave for each unique domain
LookupOf == [d \in Range(uniqueDomains) |->
                lookups[CHOOSE i \in 1..Len(uniqueDomains) : uniqueDomains[i] = d]]

\* C9: for a fixed assignment of domains to addresses (or to failure), every
\* order of processing the domains gives the sharedIpDomains and the score
\* that the loop gave.
C9_OrderIndependent ==
    pc = "net_done" =>
        \A order \in ProcessingOrders(uniqueDomains) :
            LET other == NetworkLoop(order, LookupOf)
            IN  /\ other.shared = sharedIpDomains
                /\ NetworkResult(other.shared).score = analysisResults.networkAnalysis.score

\* three domains: two share an address, the third resolved to another one
C9_Witness ==
    /\ pc = "net_done"
    /\ Len(uniqueDomains) = 3
    /\ \A i \in 1..Len(lookups) : lookups[i].ok
    /\ Cardinality(sharedIpDomains) = 2
    /\ uniqueDomains[3] \in sharedIpDomains

\* C10 as claimed: a high-risk summary always has the details of an analyzer
\* after the prefix, because networkAnalysis.score < 60 or simplifiedEEAT.score < 60.
C10_DetailsFollow ==
    (Synthesized /\ synth.overallScore < 60) =>
        /\ \/ analysisResults.networkAnalysis.score < 60
           \/ analysisResults.simplifiedEEAT.score < 60
        /\ Len(synth.summary) > 1

\* C10 as amended: a high-risk summary has the details of exactly the analyzers
\* that scored under 60 after the prefix; it is the bare prefix when the query
\* is biased (50), the network score is 60 and the authority score is 60 or 61,
\* and only then.
C10_DetailsFollowUnless ==
    (Synthesized /\ synth.summary[1] = HighRiskPrefix) =>
        LET q == analysisResults.queryFraming.score
            n == analysisResults.networkAnalysis.score
            e == analysisResults.simplifiedEEAT.score
            bare == Len(synth.summary) = 1
        IN  /\ synth.overallScore < 60
            /\ bare <=> (n >= 60 /\ e >= 60)
            /\ bare <=> (q = 50 /\ n = 60 /\ e \in { 60, 61 })
            /\ n < 60 => SubSeq(synth.summary, 2, 3) = analysisResults.networkAnalysis.details
            /\ e < 60 => SubSeq(synth.summary, Len(synth.summary) - 1, Len(synth.summary))
                             = analysisResults.simplifiedEEAT.details

\* the response carries the bare high-risk prefix
C10_Witness ==
    /\ pc = "done"
    /\ sent[1].body.overallScore = 59
    /\ sent[1].body.summary = << HighRiskPrefix >>
=============================================================================
